---------------------------- MODULE Spec2Model ----------------------------
(***************************************************************************)
(* Post-processing core of the license-plate pipeline                      *)
(* (src/edge/gstreamer/hailo-postprocess):                                 *)
(*   plate_detection.cpp  decode loop, apply_nms, compute_iou              *)
(*   plate_crop.cpp       crop_plates                                      *)
(*   plate_ocr.cpp        ctc_greedy_decode, validate_plate_text, plate_ocr*)
(*                                                                         *)
(* Numbers.  The code computes in float.  The model computes exactly:      *)
(*   - a tensor cell, a confidence and a probability are integers counting *)
(*     tenths (5 stands for 0.5f);                                         *)
(*   - a quotient is the pair <<num, den>>; den = 0 is the float NaN that  *)
(*     0.0f / 0.0f produces, and every ordered comparison with it is false;*)
(*   - a Detection built by the decode loop holds x, y, width, height in   *)
(*     twentieths (x = 2*cx - w stands for cx - w / 2.0f), so that the     *)
(*     halving is exact.  compute_iou is a ratio of areas and does not     *)
(*     depend on the unit.                                                 *)
(* Indices.  C++ indices are 0-based and kept so; data[k] of the code is   *)
(* data[k + 1] of the TLA+ sequence.                                       *)
(***************************************************************************)
EXTENDS Integers, Sequences, FiniteSets, TLC

VARIABLES
    \* plate_detection
    tensor_width,      \* tensor.width(): num_detections
    tensor_height,     \* tensor.height(): stride
    data,              \* the flat tensor buffer, tensor_width * tensor_height cells
    det_i,             \* loop variable i of the decode loop
    raw_detections,
    det_reads,         \* history: the buffer indices the decode loop has read
    hailo_detections,
    pc,                \* "idle" | "decode" | "sort" | "nms" | "done"
    \* apply_nms
    nms_input,         \* history: the argument list as passed in
    detections,
    iou_threshold,     \* hundredths
    suppressed,
    nms_i,             \* loop variable i of apply_nms
    result,
    \* compute_iou applied to a pair of boxes
    box_a, box_b, iou_ab, iou_ba, iou_aa, iou_bb, pc_iou,
    \* crop_plates
    image_width, image_height,
    crop_detections,   \* the detections argument; bbox fields count halves
    crop_k,            \* position of the range-for in crop_detections
    cropped_plates,
    pc_crop,           \* "idle" | "loop" | "done"
    \* plate_ocr and ctc_greedy_decode
    output_data,       \* the flat buffer, timesteps * num_classes cells
    timesteps, num_classes,
    ctc_t,             \* loop variable t
    prev_char, total_conf, char_count,
    ocr_result,        \* the OCRResult: text, confidence, char_confidences
    ocr_reads,         \* history: the buffer indices the decoder has read
    plate_text, results,
    pc_ocr,            \* "idle" | "decode" | "done"
    \* validate_plate_text applied to a string
    v_text, v_result, pc_val

det_vars == <<tensor_width, tensor_height, data, det_i, raw_detections,
              det_reads, hailo_detections, pc>>
nms_vars == <<nms_input, detections, iou_threshold, suppressed, nms_i, result>>
iou_vars == <<box_a, box_b, iou_ab, iou_ba, iou_aa, iou_bb, pc_iou>>
crop_vars == <<image_width, image_height, crop_detections, crop_k,
               cropped_plates, pc_crop>>
ocr_vars == <<output_data, timesteps, num_classes, ctc_t, prev_char, total_conf,
              char_count, ocr_result, ocr_reads, plate_text, results, pc_ocr>>
val_vars == <<v_text, v_result, pc_val>>
vars == <<det_vars, nms_vars, iou_vars, crop_vars, ocr_vars, val_vars>>

----------------------------------------------------------------------------
\* Bounds of the inputs.
MaxRows == 2
MaxDets == 3

\* Cell values of the detector tensor, in tenths: 0.4f and 0.5f.
TensorVals == {4, 5}
\* Declared strides: two below the 5 columns a row needs, 5, and one above.
Strides == {3, 4, 5, 6}
\* IoU thresholds passed to apply_nms directly, in hundredths.
Thresholds == {0, 45, 100}

Max(a, b) == IF a >= b THEN a ELSE b
Min(a, b) == IF a <= b THEN a ELSE b

----------------------------------------------------------------------------
\* plate_detection.cpp

CONFIDENCE_THRESHOLD == 5
NMS_THRESHOLD == 45

NaN == <<0, 0>>
Zero == <<0, 1>>

\* compute_iou: the quotient intersection / union_area, unreduced.
compute_iou(a, b) ==
    LET x1 == Max(a.x, b.x)
        y1 == Max(a.y, b.y)
        x2 == Min(a.x + a.width, b.x + b.width)
        y2 == Min(a.y + a.height, b.y + b.height)
        intersection == (x2 - x1) * (y2 - y1)
        area_a == a.width * a.height
        area_b == b.width * b.height
        union_area == area_a + area_b - intersection
    IN  IF x2 < x1 \/ y2 < y1 THEN Zero
        ELSE <<intersection, union_area>>

\* float `q > thr` for a quotient q and thr in hundredths; false for NaN.
\* (union_area is never negative once the early return is passed.)
IoUExceeds(q, thr) == q[2] > 0 /\ q[1] * 100 > thr * q[2]

\* float `p == q` for two quotients; false when either is NaN.
IoUEq(p, q) == p[2] > 0 /\ q[2] > 0 /\ p[1] * q[2] = q[1] * p[2]

\* The detection boxes handed to apply_nms and compute_iou directly, on an
\* integer grid: overlapping, touching at an edge, disjoint and zero-area ones.
BoxXs == {0, 1, 3, 7}
BoxYs == {0, 1}
BoxWs == {0, 3}
BoxHs == {0, 2}
Boxes == [x : BoxXs, y : BoxYs, width : BoxWs, height : BoxHs]
NmsBoxes == {b \in Boxes : b.x # 7 /\ b.y = 0 /\ b.height = 2}
NmsConfs == {5, 9}
NmsDetections ==
    {[x |-> b.x, y |-> b.y, width |-> b.width, height |-> b.height,
      confidence |-> c, class_id |-> 0] : b \in NmsBoxes, c \in NmsConfs}

\* All sequences over S of length at most n.
SeqsUpTo(S, n) == UNION {[1..k -> S] : k \in 0..n}

\* The comparator of the std::sort call: a.confidence > b.confidence.
SortComp(a, b) == a.confidence > b.confidence

Perms(n) == {p \in [1..n -> 1..n] : \A k, l \in 1..n : k # l => p[k] # p[l]}

\* What std::sort guarantees of its output: a permutation of the input in
\* which no later element compares before an earlier one.  The order of
\* elements that compare equivalent is unspecified.
SortOutcomes(s) ==
    {t \in {[k \in 1..Len(s) |-> s[p[k]]] : p \in Perms(Len(s))} :
        \A k, l \in 1..Len(t) : k < l => ~SortComp(t[l], t[k])}

\* First index of the inner loop of apply_nms: `size_t j = i + 1`.
InnerStartSkipsNeighbour(i) == i + 2
InnerStart(i) == i + 1

\* One pass of the inner loop for a kept detections[i].
SuppressAfter(dets, supp, i, thr) ==
    [k \in DOMAIN supp |->
        IF k - 1 >= InnerStart(i) /\ ~supp[k]
           /\ IoUExceeds(compute_iou(dets[i + 1], dets[k]), thr)
        THEN TRUE ELSE supp[k]]

\* Condition of the decode loop: `conf >= CONFIDENCE_THRESHOLD`.
PassesStrictlyAbove(conf) == conf > CONFIDENCE_THRESHOLD
PassesThreshold(conf) == conf >= CONFIDENCE_THRESHOLD

\* The Detection built from a row: centre form to corner form.
DecodeDetection(cx, cy, w, h, conf) ==
    [x |-> 2 * cx - w, y |-> 2 * cy - h, width |-> 2 * w, height |-> 2 * h,
     confidence |-> conf, class_id |-> 0]

\* Buffer index of column c of row i.
CellIndex(i, c) == i * tensor_height + c

ToHailo(det) ==
    [bbox |-> [x |-> det.x, y |-> det.y, width |-> det.width,
               height |-> det.height],
     confidence |-> det.confidence, class_id |-> det.class_id,
     label |-> "license_plate"]

----------------------------------------------------------------------------
\* Actions of plate_detection and apply_nms

NmsIdle ==
    /\ nms_input = <<>>
    /\ detections = <<>>
    /\ iou_threshold = NMS_THRESHOLD
    /\ suppressed = <<>>
    /\ nms_i = 0
    /\ result = <<>>

DetIdle ==
    /\ tensor_width = 0
    /\ tensor_height = 5
    /\ data = <<>>
    /\ det_i = 0
    /\ raw_detections = <<>>
    /\ det_reads = {}
    /\ hailo_detections = <<>>

IouIdle ==
    /\ box_a = [x |-> 0, y |-> 0, width |-> 0, height |-> 0]
    /\ box_b = box_a
    /\ iou_ab = Zero /\ iou_ba = Zero /\ iou_aa = Zero /\ iou_bb = Zero
    /\ pc_iou = "idle"

\* One iteration of the decode loop.  A read at or past the end of the buffer
\* is undefined behaviour: it yields any cell value.
DecodeRow ==
    /\ pc = "decode"
    /\ det_i < tensor_width
    /\ \E oob \in [0..4 -> TensorVals] :
         LET cell(c) == IF CellIndex(det_i, c) < Len(data)
                        THEN data[CellIndex(det_i, c) + 1] ELSE oob[c]
             cx == cell(0)
             cy == cell(1)
             w == cell(2)
             h == cell(3)
             conf == cell(4)
         IN  raw_detections' =
                 IF PassesThreshold(conf)
                 THEN Append(raw_detections, DecodeDetection(cx, cy, w, h, conf))
                 ELSE raw_detections
    /\ det_reads' = det_reads \cup {CellIndex(det_i, c) : c \in 0..4}
    /\ det_i' = det_i + 1
    /\ UNCHANGED <<tensor_width, tensor_height, data, hailo_detections, pc>>
    /\ UNCHANGED <<nms_vars, iou_vars, crop_vars, ocr_vars, val_vars>>

\* The loop is over: apply_nms(raw_detections, NMS_THRESHOLD) is entered.
CallNms ==
    /\ pc = "decode"
    /\ det_i >= tensor_width
    /\ nms_input' = raw_detections
    /\ detections' = raw_detections
    /\ iou_threshold' = NMS_THRESHOLD
    /\ pc' = "sort"
    /\ UNCHANGED <<tensor_width, tensor_height, data, det_i, raw_detections,
                   det_reads, hailo_detections>>
    /\ UNCHANGED <<suppressed, nms_i, result, iou_vars, crop_vars, ocr_vars, val_vars>>

\* apply_nms, up to its loop: std::sort, then the suppressed vector.
NmsSort ==
    /\ pc = "sort"
    /\ detections' \in SortOutcomes(detections)
    /\ suppressed' = [k \in 1..Len(detections) |-> FALSE]
    /\ nms_i' = 0
    /\ result' = <<>>
    /\ pc' = "nms"
    /\ UNCHANGED <<tensor_width, tensor_height, data, det_i, raw_detections,
                   det_reads, hailo_detections>>
    /\ UNCHANGED <<nms_input, iou_threshold, iou_vars, crop_vars, ocr_vars, val_vars>>

\* One iteration of the outer loop of apply_nms, its inner loop included.
NmsIter ==
    /\ pc = "nms"
    /\ nms_i < Len(detections)
    /\ IF suppressed[nms_i + 1]
       THEN UNCHANGED <<result, suppressed>>
       ELSE /\ result' = Append(result, detections[nms_i + 1])
            /\ suppressed' = SuppressAfter(detections, suppressed, nms_i,
                                           iou_threshold)
    /\ nms_i' = nms_i + 1
    /\ UNCHANGED <<tensor_width, tensor_height, data, det_i, raw_detections,
                   det_reads, hailo_detections, pc>>
    /\ UNCHANGED <<nms_input, detections, iou_threshold, iou_vars, crop_vars, ocr_vars, val_vars>>

\* apply_nms has returned to plate_detection: convert to the Hailo format.
Convert ==
    /\ pc = "nms"
    /\ nms_i >= Len(detections)
    /\ hailo_detections' = [k \in 1..Len(result) |-> ToHailo(result[k])]
    /\ pc' = "done"
    /\ UNCHANGED <<tensor_width, tensor_height, data, det_i, raw_detections,
                   det_reads>>
    /\ UNCHANGED <<nms_vars, iou_vars, crop_vars, ocr_vars, val_vars>>

\* compute_iou on a pair of boxes, in both orders and on each with itself.
ComputeIou ==
    /\ pc_iou = "call"
    /\ iou_ab' = compute_iou(box_a, box_b)
    /\ iou_ba' = compute_iou(box_b, box_a)
    /\ iou_aa' = compute_iou(box_a, box_a)
    /\ iou_bb' = compute_iou(box_b, box_b)
    /\ pc_iou' = "done"
    /\ UNCHANGED <<box_a, box_b, det_vars, nms_vars, crop_vars, ocr_vars, val_vars>>

----------------------------------------------------------------------------
\* plate_crop.cpp

MaxCropDets == 2
OCR_WIDTH == 200
OCR_HEIGHT == 64

\* A normalized bbox field n stands for n / 2.
\* Frame sizes and normalized boxes, origin and size inside and outside [0,1].
FrameWidths == {0, 1, 4}
FrameHeights == {3}
CropBoxes == [x : {-1, 1, 3}, y : {-1, 1}, width : {-1, 1, 3}, height : {1, 3}]

\* static_cast<int> of a quotient: truncation toward zero.
TruncDiv(a, b) == IF a >= 0 THEN a \div b ELSE -((-a) \div b)

\* static_cast<int>(field * size) for a normalized field n / 2.
ToPixels(n, size) == TruncDiv(n * size, 2)

\* `std::max(0, std::min(x, image->width - 1))`
ClampOrigin(v, size) == Max(0, Min(v, size - 1))

\* `std::min(w, image->width - x)`
ClampExtentIgnoringOrigin(e, size, origin) == Min(e, size)
ClampExtent(e, size, origin) == Min(e, size - origin)

CropIdle ==
    /\ image_width = 0
    /\ image_height = 0
    /\ crop_detections = <<>>
    /\ crop_k = 0
    /\ cropped_plates = <<>>
    /\ pc_crop = "idle"

\* One iteration of the range-for of crop_plates.
CropOne ==
    /\ pc_crop = "loop"
    /\ crop_k < Len(crop_detections)
    /\ LET det == crop_detections[crop_k + 1]
           x == ClampOrigin(ToPixels(det.bbox.x, image_width), image_width)
           y == ClampOrigin(ToPixels(det.bbox.y, image_height), image_height)
           w == ClampExtent(ToPixels(det.bbox.width, image_width), image_width, x)
           h == ClampExtent(ToPixels(det.bbox.height, image_height),
                            image_height, y)
       IN  cropped_plates' =
               IF w <= 0 \/ h <= 0 THEN cropped_plates
               ELSE Append(cropped_plates,
                           [bbox |-> [x |-> x, y |-> y, width |-> w, height |-> h],
                            target_width |-> OCR_WIDTH,
                            target_height |-> OCR_HEIGHT,
                            detection |-> det])
    /\ crop_k' = crop_k + 1
    /\ UNCHANGED <<image_width, image_height, crop_detections, pc_crop>>
    /\ UNCHANGED <<det_vars, nms_vars, iou_vars, ocr_vars, val_vars>>

\* The range-for is over: crop_plates returns cropped_plates.
CropReturn ==
    /\ pc_crop = "loop"
    /\ crop_k >= Len(crop_detections)
    /\ pc_crop' = "done"
    /\ UNCHANGED <<image_width, image_height, crop_detections, crop_k,
                   cropped_plates>>
    /\ UNCHANGED <<det_vars, nms_vars, iou_vars, ocr_vars, val_vars>>

----------------------------------------------------------------------------
\* plate_ocr.cpp

CHARSET ==
    <<"0", "1", "2", "3", "4", "5", "6", "7", "8", "9",
      "A", "B", "C", "D", "E", "F", "G", "H", "I", "J", "K", "L", "M",
      "N", "O", "P", "Q", "R", "S", "T", "U", "V", "W", "X", "Y", "Z">>
BLANK_INDEX == Len(CHARSET)

MIN_CONFIDENCE == 6
MinPlateLen == 4
MaxPlateLen == 8

MaxT == 3
MaxTextLen == 9

\* Probabilities of the recognition buffer, in tenths.
ProbVals == {1, 9}
\* Declared class counts: below 2, small, and around the size of CHARSET.
ClassCounts == {0, 1, 2, 3, Len(CHARSET), Len(CHARSET) + 1, Len(CHARSET) + 2}
\* The classes a row of the input buffers may single out.
PeakClasses(C) ==
    {0, 1, C - 2, C - 1, Len(CHARSET) - 1, Len(CHARSET)} \cap (0..(C - 1))
\* The input buffers of T rows of C cells: each row holds 0.1 except at
\* one class, which holds either value of ProbVals (the lower makes a flat row).
Buffers(T, C) ==
    IF T * C = 0 THEN {<<>>}
    ELSE {[n \in 1..(T * C) |->
              IF (n - 1) % C = peaks[(n - 1) \div C + 1][1]
              THEN peaks[(n - 1) \div C + 1][2] ELSE 1] :
          peaks \in [1..T -> PeakClasses(C) \X ProbVals]}
\* Characters of the strings handed to validate_plate_text directly.
TextChars == {"A", "7", "a"}

\* output_data[idx]; a read at or past the end of the buffer is undefined
\* behaviour and yields oob.
Cell(idx, oob) == IF idx < Len(output_data) THEN output_data[idx + 1] ELSE oob

\* The inner loop of ctc_greedy_decode from class c on: <<max_idx, max_prob>>.
RECURSIVE ArgMaxFrom(_, _, _, _)
ArgMaxFrom(t, c, max_idx, max_prob) ==
    IF c >= num_classes THEN <<max_idx, max_prob>>
    ELSE LET prob == output_data[t * num_classes + c + 1]
         IN  IF prob > max_prob THEN ArgMaxFrom(t, c + 1, c, prob)
             ELSE ArgMaxFrom(t, c + 1, max_idx, max_prob)

\* The buffer indices timestep t reads.
StepReads(t) ==
    {t * num_classes} \cup {t * num_classes + c : c \in 1..(num_classes - 1)}

\* `max_idx != BLANK_INDEX && max_idx != prev_char`
EmitsAlsoRepeats(max_idx, prev) == max_idx # BLANK_INDEX
Emits(max_idx, prev) == max_idx # BLANK_INDEX /\ max_idx # prev

\* `char_count > 0 ? total_conf / char_count : 0.0f`
AverageUnguarded(total, count) == <<total, count>>
Average(total, count) == IF count > 0 THEN <<total, count>> ELSE Zero

\* CHARSET.find(c): the 0-based position of c, or npos (-1 here).
Find(c) ==
    IF \E k \in DOMAIN CHARSET : CHARSET[k] = c
    THEN (CHOOSE k \in DOMAIN CHARSET :
              CHARSET[k] = c /\ \A l \in 1..(k - 1) : CHARSET[l] # c) - 1
    ELSE -1

\* The loop of validate_plate_text over the first n characters of text.
RECURSIVE Cleaned(_, _)
Cleaned(text, n) ==
    IF n = 0 THEN <<>>
    ELSE IF Find(text[n]) # -1 THEN Append(Cleaned(text, n - 1), text[n])
         ELSE Cleaned(text, n - 1)

\* `cleaned.length() < 4 || cleaned.length() > 8`
LengthRejectedOffByOne(n) == n <= MinPlateLen \/ n > MaxPlateLen
LengthRejected(n) == n < MinPlateLen \/ n > MaxPlateLen

validate_plate_text(text) ==
    LET cleaned == Cleaned(text, Len(text))
    IN  IF LengthRejected(Len(cleaned)) THEN <<>> ELSE cleaned

\* float `q >= thr` for a quotient q and thr in tenths; false for NaN.
ConfAtLeast(q, thr) == q[2] > 0 /\ q[1] >= thr * q[2]

OcrIdle ==
    /\ output_data = <<>>
    /\ timesteps = 0
    /\ num_classes = 0
    /\ ctc_t = 0
    /\ prev_char = BLANK_INDEX
    /\ total_conf = 0
    /\ char_count = 0
    /\ ocr_result = [text |-> <<>>, confidence |-> Zero, char_confidences |-> <<>>]
    /\ ocr_reads = {}
    /\ plate_text = <<>>
    /\ results = <<>>
    /\ pc_ocr = "idle"

ValIdle ==
    /\ v_text = <<>>
    /\ v_result = <<>>
    /\ pc_val = "idle"

\* One timestep of ctc_greedy_decode: the argmax, then the emission.
CtcStep ==
    /\ pc_ocr = "decode"
    /\ ctc_t < timesteps
    /\ \E oob \in ProbVals :
         LET am == ArgMaxFrom(ctc_t, 1, 0, Cell(ctc_t * num_classes, oob))
             max_idx == am[1]
             max_prob == am[2]
         IN  /\ IF Emits(max_idx, prev_char) /\ max_idx < Len(CHARSET)
                THEN /\ ocr_result' =
                            [ocr_result EXCEPT
                               !.text = Append(@, CHARSET[max_idx + 1]),
                               !.char_confidences = Append(@, max_prob)]
                     /\ total_conf' = total_conf + max_prob
                     /\ char_count' = char_count + 1
                ELSE UNCHANGED <<ocr_result, total_conf, char_count>>
             /\ prev_char' = max_idx
    /\ ocr_reads' = ocr_reads \cup StepReads(ctc_t)
    /\ ctc_t' = ctc_t + 1
    /\ UNCHANGED <<output_data, timesteps, num_classes, plate_text, results,
                   pc_ocr>>
    /\ UNCHANGED <<det_vars, nms_vars, iou_vars, crop_vars, val_vars>>

\* The loop is over: ctc_greedy_decode sets the confidence and returns, and
\* plate_ocr validates the text and files the classification.
CtcReturn ==
    /\ pc_ocr = "decode"
    /\ ctc_t >= timesteps
    /\ LET conf == Average(total_conf, char_count)
           validated == validate_plate_text(ocr_result.text)
       IN  /\ ocr_result' = [ocr_result EXCEPT !.confidence = conf]
           /\ plate_text' = validated
           /\ results' =
                  IF validated # <<>> /\ ConfAtLeast(conf, MIN_CONFIDENCE)
                  THEN <<[label |-> validated, confidence |-> conf,
                          char_confidences |-> ocr_result.char_confidences,
                          raw_text |-> ocr_result.text]>>
                  ELSE <<>>
    /\ pc_ocr' = "done"
    /\ UNCHANGED <<output_data, timesteps, num_classes, ctc_t, prev_char,
                   total_conf, char_count, ocr_reads>>
    /\ UNCHANGED <<det_vars, nms_vars, iou_vars, crop_vars, val_vars>>

\* validate_plate_text on a string.
Validate ==
    /\ pc_val = "call"
    /\ v_result' = validate_plate_text(v_text)
    /\ pc_val' = "done"
    /\ UNCHANGED <<v_text, det_vars, nms_vars, iou_vars, crop_vars, ocr_vars>>

----------------------------------------------------------------------------
\* Specifications

\* plate_detection on a tensor of tensor_width rows of tensor_height columns.
InitDetect ==
    /\ tensor_width \in 0..MaxRows
    /\ tensor_height \in Strides
    /\ data \in [1..(tensor_width * tensor_height) -> TensorVals]
    /\ det_i = 0
    /\ raw_detections = <<>>
    /\ det_reads = {}
    /\ hailo_detections = <<>>
    /\ pc = "decode"
    /\ NmsIdle /\ IouIdle /\ CropIdle /\ OcrIdle /\ ValIdle

NextDetect == DecodeRow \/ CallNms \/ NmsSort \/ NmsIter \/ Convert

SpecDetect == InitDetect /\ [][NextDetect]_vars

\* apply_nms on a list of detections and a threshold.
InitNms ==
    /\ DetIdle /\ IouIdle /\ CropIdle /\ OcrIdle /\ ValIdle
    /\ nms_input \in SeqsUpTo(NmsDetections, MaxDets)
    /\ detections = nms_input
    /\ iou_threshold \in Thresholds
    /\ suppressed = <<>>
    /\ nms_i = 0
    /\ result = <<>>
    /\ pc = "sort"

NextNms == NmsSort \/ NmsIter

SpecNms == InitNms /\ [][NextNms]_vars

\* compute_iou on a pair of boxes.
InitIou ==
    /\ DetIdle /\ NmsIdle /\ CropIdle /\ OcrIdle /\ ValIdle
    /\ pc = "idle"
    /\ box_a \in Boxes
    /\ box_b \in Boxes
    /\ iou_ab = Zero /\ iou_ba = Zero /\ iou_aa = Zero /\ iou_bb = Zero
    /\ pc_iou = "call"

NextIou == ComputeIou

SpecIou == InitIou /\ [][NextIou]_vars

\* crop_plates on a frame and a list of detections.
InitCrop ==
    /\ DetIdle /\ NmsIdle /\ IouIdle /\ OcrIdle /\ ValIdle
    /\ pc = "idle"
    /\ image_width \in FrameWidths
    /\ image_height \in FrameHeights
    /\ crop_detections \in
           SeqsUpTo({[bbox |-> b, confidence |-> 9, class_id |-> 0,
                      label |-> "license_plate"] : b \in CropBoxes},
                    MaxCropDets)
    /\ crop_k = 0
    /\ cropped_plates = <<>>
    /\ pc_crop = "loop"

NextCrop == CropOne \/ CropReturn

SpecCrop == InitCrop /\ [][NextCrop]_vars

\* plate_ocr on a recognition buffer of timesteps rows of num_classes cells.
InitOcr ==
    /\ DetIdle /\ NmsIdle /\ IouIdle /\ CropIdle /\ ValIdle
    /\ pc = "idle"
    /\ timesteps \in 0..MaxT
    /\ num_classes \in ClassCounts
    /\ output_data \in Buffers(timesteps, num_classes)
    /\ ctc_t = 0
    /\ prev_char = BLANK_INDEX
    /\ total_conf = 0
    /\ char_count = 0
    /\ ocr_result = [text |-> <<>>, confidence |-> Zero, char_confidences |-> <<>>]
    /\ ocr_reads = {}
    /\ plate_text = <<>>
    /\ results = <<>>
    /\ pc_ocr = "decode"

NextOcr == CtcStep \/ CtcReturn

SpecOcr == InitOcr /\ [][NextOcr]_vars

\* validate_plate_text on a string.
InitValidate ==
    /\ DetIdle /\ NmsIdle /\ IouIdle /\ CropIdle /\ OcrIdle
    /\ pc = "idle"
    /\ v_text \in SeqsUpTo(TextChars, MaxTextLen)
    /\ v_result = <<>>
    /\ pc_val = "call"

NextValidate == Validate

SpecValidate == InitValidate /\ [][NextValidate]_vars

----------------------------------------------------------------------------
\* Claims about plate_detection.cpp

\* apply_nms has run its loop to the end.
NmsReturned == pc \in {"nms", "done"} /\ nms_i >= Len(detections)

\* C1: the list apply_nms returns holds no two distinct detections a, b with
\* compute_iou(a, b) > iou_threshold (in either order of the arguments).
C1_NmsSurvivorsPairwiseBelowThreshold ==
    pc \in {"nms", "done"} =>
        \A p, q \in DOMAIN result :
            p # q => ~IoUExceeds(compute_iou(result[p], result[q]), iou_threshold)

\* C1 witness: apply_nms returned at least two survivors after suppressing
\* at least one detection.
C1_Witness ==
    /\ NmsReturned
    /\ Len(result) >= 2
    /\ Len(result) < Len(nms_input)

\* The rows below row n whose column 4 passes the threshold, decoded, in row
\* order.
RECURSIVE Candidates(_)
Candidates(n) ==
    IF n = 0 THEN <<>>
    ELSE LET r == n - 1
             col(c) == data[r * tensor_height + c + 1]
         IN  IF col(4) >= CONFIDENCE_THRESHOLD
             THEN Append(Candidates(r),
                         DecodeDetection(col(0), col(1), col(2), col(3), col(4)))
             ELSE Candidates(r)

\* C3: with rows of at least 5 columns, the candidate list after det_i rows is
\* exactly the rows below det_i whose column-4 confidence is >= the
\* threshold, in row order.
C3_CandidatesAreRowsAtOrAboveThreshold ==
    tensor_height >= 5 => raw_detections = Candidates(det_i)

\* C3 witness: the loop is over, a row at the threshold was kept and a row
\* below it was left out.
C3_Witness ==
    /\ tensor_height >= 5
    /\ pc = "decode"
    /\ det_i = tensor_width
    /\ tensor_width >= 2
    /\ Len(raw_detections) = 1
    /\ raw_detections[1].confidence = CONFIDENCE_THRESHOLD

\* a and b share no area.
NoOverlap(a, b) ==
    \/ Min(a.x + a.width, b.x + b.width) <= Max(a.x, b.x)
    \/ Min(a.y + a.height, b.y + b.height) <= Max(a.y, b.y)

\* C9: for boxes of width >= 0 and height >= 0, compute_iou is symmetric,
\* gives 1 on a box and itself, and gives 0 on boxes that do not overlap.
C9_IouSymmetricReflexiveZeroWhenDisjoint ==
    pc_iou = "done" =>
        /\ IoUEq(iou_ab, iou_ba)
        /\ IoUEq(iou_aa, <<1, 1>>)
        /\ IoUEq(iou_bb, <<1, 1>>)
        /\ NoOverlap(box_a, box_b) => IoUEq(iou_ab, Zero)

\* Insertion of d into a list sorted by descending confidence, after every
\* element of the same confidence.
RECURSIVE StableInsert(_, _)
StableInsert(s, d) ==
    IF s = <<>> THEN <<d>>
    ELSE IF d.confidence > s[Len(s)].confidence
         THEN Append(StableInsert(SubSeq(s, 1, Len(s) - 1), d), s[Len(s)])
         ELSE Append(s, d)

RECURSIVE StableSortDesc(_)
StableSortDesc(s) ==
    IF s = <<>> THEN <<>>
    ELSE StableInsert(StableSortDesc(SubSeq(s, 1, Len(s) - 1)), s[Len(s)])

\* Greedy suppression over a list taken in its order.
RECURSIVE GreedyNms(_, _)
GreedyNms(s, thr) ==
    IF s = <<>> THEN <<>>
    ELSE <<s[1]>> \o
         GreedyNms(SelectSeq(Tail(s),
                             LAMBDA d : ~IoUExceeds(compute_iou(s[1], d), thr)),
                   thr)

\* C10: apply_nms processes the detections in descending confidence with
\* equal confidences in their original order, so what it returns is the
\* greedy suppression of the stably sorted input.
C10_NmsUsesStableOrder ==
    NmsReturned => result = GreedyNms(StableSortDesc(nms_input), iou_threshold)

----------------------------------------------------------------------------
\* Claims about plate_crop.cpp

\* The clamped width or height of det is <= 0.
ClampedEmpty(det) ==
    LET x == ClampOrigin(ToPixels(det.bbox.x, image_width), image_width)
        y == ClampOrigin(ToPixels(det.bbox.y, image_height), image_height)
    IN  \/ ClampExtent(ToPixels(det.bbox.width, image_width), image_width, x) <= 0
        \/ ClampExtent(ToPixels(det.bbox.height, image_height), image_height, y)
               <= 0

\* C2: every region crop_plates emits lies inside the frame and is at least
\* 1 x 1: 0 <= x, 0 <= y, w >= 1, h >= 1, x + w <= W, y + h <= H; and a
\* detection whose clamped width or height is <= 0 emits no region.
C2_CropRegionsInsideFrame ==
    /\ Len(cropped_plates) <= crop_k
    /\ \A k \in DOMAIN cropped_plates :
         ~ClampedEmpty(cropped_plates[k].detection)
    /\ \A k \in DOMAIN cropped_plates :
         LET r == cropped_plates[k].bbox
         IN  /\ 0 <= r.x /\ 0 <= r.y
             /\ r.width >= 1 /\ r.height >= 1
             /\ r.x + r.width <= image_width
             /\ r.y + r.height <= image_height

\* C2 witness: crop_plates returned, having dropped a detection and having
\* emitted a region for a box that reaches past the right edge of the frame.
C2_Witness ==
    /\ pc_crop = "done"
    /\ Len(cropped_plates) < Len(crop_detections)
    /\ \E k \in DOMAIN cropped_plates :
         LET b == cropped_plates[k].detection.bbox
         IN  b.x + b.width > 2

----------------------------------------------------------------------------
\* Claims about plate_ocr.cpp

\* The class of the first maximum of row t of the buffer.
RowArgMax(t) ==
    CHOOSE k \in 0..(num_classes - 1) :
        /\ \A c \in 0..(num_classes - 1) :
               output_data[t * num_classes + c + 1] <=
                   output_data[t * num_classes + k + 1]
        /\ \A c \in 0..(k - 1) :
               output_data[t * num_classes + c + 1] <
                   output_data[t * num_classes + k + 1]

\* The argmax of the buffer is class k at every timestep.
AllArgMax(k) == \A t \in 0..(timesteps - 1) : RowArgMax(t) = k

EmptyResult(r) ==
    /\ r.text = <<>>
    /\ r.char_confidences = <<>>
    /\ IoUEq(r.confidence, Zero)

ValidChars == {CHARSET[k] : k \in DOMAIN CHARSET}
Stripped(text) == SelectSeq(text, LAMBDA c : c \in ValidChars)

\* C6: validate_plate_text returns the input without its characters outside
\* the character set when that has 4 to 8 characters, and the empty string
\* otherwise.
C6_ValidatorStripsAndChecksLength ==
    pc_val = "done" =>
        v_result = IF Len(Stripped(v_text)) \in 4..8 THEN Stripped(v_text)
                   ELSE <<>>

\* C6 witness: a string of 5 characters, one of them invalid, was accepted
\* as its 4 valid characters.
C6_Witness ==
    /\ pc_val = "done"
    /\ Len(v_text) = 5
    /\ Len(v_result) = 4

----------------------------------------------------------------------------
\* Claims about undersized shapes

\* C7: a detection decode with stride < 5 and a sequence decode with class
\* count < 2 fail fast: they read nothing and produce no detection and no text.
C7_UndersizedShapeFailsFast ==
    /\ tensor_height < 5 =>
         /\ det_reads = {}
         /\ raw_detections = <<>>
         /\ hailo_detections = <<>>
    /\ num_classes < 2 =>
         /\ ocr_reads = {}
         /\ ocr_result.text = <<>>
         /\ results = <<>>

\* C8: every buffer index the decode loop reads is < rows x stride and every
\* buffer index ctc_greedy_decode reads is < timesteps x classes.
C8_ReadsInsideDeclaredShape ==
    /\ \A k \in det_reads : k < tensor_width * tensor_height
    /\ \A k \in ocr_reads : k < timesteps * num_classes

====
